---- MODULE Spec2Model ----
(***************************************************************************)
(* The subscription router of the Tendermint RPC client                    *)
(* (rpc/src/client/subscription.rs): the routing table, the two pending    *)
(* request tables, and the event / result channels the router writes to.  *)
(*                                                                         *)
(* The router is owned by one driver task, so every router method runs to *)
(* completion before the next one starts; a method is one action.  The    *)
(* consumers act only on their receiver halves (dropping them).           *)
(* All channels of this specification are created by `unbounded()`, as in *)
(* the tests of the module and in `subscribe` (buf_size 0).               *)
(***************************************************************************)
EXTENDS Naturals, Sequences, FiniteSets, TLC

\* ---------------------------------------------------------------- bounds
\* The number of channels (event and result channels together) the callers
\* create, and the number of publish calls made.
MaxChannels == 3
MaxPublish == 2
\* The number of receiver halves the consumers and callers drop.
MaxDrops == 1

\* ------------------------------------------------------------ value sets
IdTexts == {"s1", "s2"}
Queries == {"q1", "q2"}
Errors == {"e1", "e2"}

\* JSON-RPC request ids are plain strings (req_id: &str).
ReqIds == IdTexts

\* struct SubscriptionId(String), built by From<&str>.
SubscriptionId(s) == [text |-> s]

\* AsRef<str> for SubscriptionId.
as_ref(id) == id.text

SubsIds == {SubscriptionId(s) : s \in IdTexts}

\* Result<()> values carried by a result channel.
OkUnit == <<"Ok">>
Err(e) == <<"Err", e>>

\* Result<Event> value carried by an event channel.
OkEvent(ev) == <<"Ok", ev>>

\* ------------------------------------------------------------- HashMap
EmptyMap == [k \in {} |-> 0]
Put(m, k, v) == [x \in DOMAIN m \cup {k} |-> IF x = k THEN v ELSE m[x]]
Del(m, k) == [x \in DOMAIN m \ {k} |-> m[x]]

VARIABLES
    subscriptions,        \* query -> (SubscriptionId -> event channel)
    pending_subscribe,    \* req id -> PendingSubscribe
    pending_unsubscribe,  \* req id -> PendingUnsubscribe
    event_chan,           \* the event channels created so far
    result_chan,          \* the result channels created so far
    npub,                 \* number of publish calls made
    last,                 \* the router call (or consumer step) made last
    terminate_chan,       \* the control channel from the handles to the driver
    handles,              \* the Subscription handles and their terminate calls
    driver,               \* the TerminateSubscription messages the driver holds
    conv                  \* a conversion between SubscriptionId and JSON-RPC id

vars == <<subscriptions, pending_subscribe, pending_unsubscribe,
          event_chan, result_chan, npub, last,
          terminate_chan, handles, driver, conv>>

\* What is outside the router and the channels it writes to.
outside == <<terminate_chan, handles, driver, conv>>

\* struct PendingSubscribe
PendingSubscribe(id, query, event_tx, result_tx) ==
    [id |-> id, query |-> query, event_tx |-> event_tx, result_tx |-> result_tx]

\* struct PendingUnsubscribe
PendingUnsubscribe(id, query, result_tx) ==
    [id |-> id, query |-> query, result_tx |-> result_tx]

\* An event channel: what was enqueued, how much of it the receiver has
\* taken out, whether the receiver half is alive, the capacity (0: the
\* channel is unbounded, as buf_size 0 of subscribe_with_buf_size), the query
\* its sender was registered for, and what became of the sender ("pending",
\* "active": the router holds it; otherwise it was dropped).
NewEventChan(query, fate) ==
    [buf |-> <<>>, nread |-> 0, rx |-> TRUE, cap |-> 0,
     fate |-> fate, query |-> query]

\* A result channel, created by unbounded(): what was enqueued, how much of
\* it the caller has taken out, and whether the caller still holds the
\* receiver.
NewResultChan == [buf |-> <<>>, nread |-> 0, rx |-> TRUE, cap |-> 0]

\* What is remembered of the call made last: the method; the key of the
\* entry it wrote, took out or published to (a request id, the text of a
\* subscription id, or a query) and the error it passed on, "-" when it
\* found no entry; whether it found the entry it looks up; and the Result it
\* returned.
Call(op, key, err, hit, ret) ==
    [op |-> op, key |-> key, err |-> err, hit |-> hit, ret |-> ret]

\* The control channel, created by unbounded(): no message yet, and the
\* driver holds the receiver.
NewControlChan == [buf |-> <<>>, nread |-> 0, rx |-> TRUE, cap |-> 0]

\* No Subscription handle exists.
NoHandles ==
    /\ terminate_chan = NewControlChan
    /\ handles = <<>>
    /\ driver = {}

\* No conversion is under way.
NoConversion == conv = [stage |-> "idle"]

\* impl Default for SubscriptionRouter: empty tables, no channel, no call.
NewRouter ==
    /\ subscriptions = EmptyMap
    /\ pending_subscribe = EmptyMap
    /\ pending_unsubscribe = EmptyMap
    /\ event_chan = <<>>
    /\ result_chan = <<>>
    /\ npub = 0
    /\ last = Call("new", "-", "-", FALSE, "Ok")

\* The router after construction, before any handle is given out.
Init ==
    /\ NewRouter
    /\ NoHandles
    /\ NoConversion

\* ------------------------------------------------------------ channels
\* The values enqueued on a channel and not yet taken out by its receiver.
queued(ch) == Len(ch.buf) - ch.nread

\* A bounded channel whose buffer holds as many values as its capacity.
full(ch) == ch.cap > 0 /\ queued(ch) >= ch.cap

\* ChannelTx::send.  On an unbounded channel it fails exactly when the
\* receiver half is gone, and otherwise enqueues without waiting.  On a
\* bounded channel the router's contract is that a send finding the buffer
\* full fails as a send to a channel without receiver does.
send_ok(ch) == ch.rx /\ ~full(ch)

sent(ch, v) == IF send_ok(ch) THEN [ch EXCEPT !.buf = Append(@, v)] ELSE ch

\* The Result<()> a router method returns after `result_tx.send(..).await?`.
send_ret(ch) == IF send_ok(ch) THEN "Ok" ELSE "Err"

\* The router holds the sender of event channel c: in the routing table or
\* in a pending-subscribe entry.
event_tx_held(c) == event_chan[c].fate \in {"pending", "active"}

\* The router holds the sender of result channel c in a pending entry; it
\* goes out of scope with the entry (at the end of confirm_* / cancel_*, or
\* when an insert under the same request id replaces the entry).
result_tx_held(c) ==
    \/ \E r \in DOMAIN pending_subscribe : pending_subscribe[r].result_tx = c
    \/ \E r \in DOMAIN pending_unsubscribe : pending_unsubscribe[r].result_tx = c

\* The receiver halves dropped so far.
dropped_rx ==
    Cardinality({c \in DOMAIN event_chan : ~event_chan[c].rx})
    + Cardinality({c \in DOMAIN result_chan : ~result_chan[c].rx})

\* ------------------------------------------------------------- queries
\* SubscriptionRouter::is_active
is_active(id) ==
    \E query \in DOMAIN subscriptions : id \in DOMAIN subscriptions[query]

\* SubscriptionRouter::get_active_subscription_mut: the sinks `find` may
\* return (HashMap iteration order decides when there are several).
get_active_subscription_mut(id) ==
    {subscriptions[query][id] :
        query \in {q \in DOMAIN subscriptions : id \in DOMAIN subscriptions[q]}}

\* subscription_state consulting pending_unsubscribe before
\* pending_subscribe.
subscription_state_cancelling_first(req_id) ==
    IF req_id \in DOMAIN pending_unsubscribe THEN "Cancelling"
    ELSE IF req_id \in DOMAIN pending_subscribe THEN "Pending"
    ELSE IF is_active(SubscriptionId(req_id)) THEN "Active"
    ELSE "NotFound"

\* SubscriptionRouter::subscription_state
subscription_state(req_id) ==
    IF req_id \in DOMAIN pending_subscribe THEN "Pending"
    ELSE IF req_id \in DOMAIN pending_unsubscribe THEN "Cancelling"
    ELSE IF is_active(SubscriptionId(req_id)) THEN "Active"
    ELSE "NotFound"

\* ------------------------------------------------- the routing table
\* The table after SubscriptionRouter::add.
router_add(S, id, query, event_tx) ==
    LET subs_for_query == IF query \in DOMAIN S THEN S[query] ELSE EmptyMap
    IN  Put(S, query, Put(subs_for_query, id, event_tx))

\* The event channels after SubscriptionRouter::add: the sender that the
\* insert replaces, if any, is dropped.
senders_after_add(E, S, id, query, event_tx) ==
    [c \in DOMAIN E |->
        IF c = event_tx THEN [E[c] EXCEPT !.fate = "active"]
        ELSE IF query \in DOMAIN S /\ id \in DOMAIN S[query] /\ S[query][id] = c
             THEN [E[c] EXCEPT !.fate = "replaced"]
        ELSE E[c]]

\* remove leaving the table as it is.
router_remove_none(S, id, query) == S

\* The table after SubscriptionRouter::remove.
router_remove(S, id, query) ==
    IF query \in DOMAIN S
    THEN [S EXCEPT ![query] = Del(@, id)]
    ELSE S

\* The event channels after SubscriptionRouter::remove.
senders_after_remove(E, S, id, query) ==
    [c \in DOMAIN E |->
        IF query \in DOMAIN S /\ id \in DOMAIN S[query] /\ S[query][id] = c
        THEN [E[c] EXCEPT !.fate = "removed"]
        ELSE E[c]]

\* ------------------------------------------------------------ publish
\* publish never recording a failed send.
disconnected_none(subs_for_query, E) == {}

\* publish pushing on `disconnected` only the sinks whose receiver is gone.
disconnected_receiver_gone(subs_for_query, E) ==
    {id \in DOMAIN subs_for_query : ~E[subs_for_query[id]].rx}

\* The ids pushed on `disconnected` by the loop of publish.
disconnected(subs_for_query, E) ==
    {id \in DOMAIN subs_for_query : ~send_ok(E[subs_for_query[id]])}

\* publish leaving its loop after the first sink.
fan_out_first_only(E, subs_for_query, ev) ==
    LET first == CHOOSE id \in DOMAIN subs_for_query : TRUE
    IN  [c \in DOMAIN E |->
            IF DOMAIN subs_for_query # {} /\ subs_for_query[first] = c
            THEN IF send_ok(E[c]) THEN sent(E[c], OkEvent(ev))
                 ELSE [E[c] EXCEPT !.fate = "evicted"]
            ELSE E[c]]

\* publish sending also to the event senders held by pending-subscribe
\* entries of the query.
fan_out_pending_too(E, subs_for_query, ev) ==
    [c \in DOMAIN E |->
        IF \/ \E id \in DOMAIN subs_for_query : subs_for_query[id] = c
           \/ \E r \in DOMAIN pending_subscribe :
                 /\ pending_subscribe[r].event_tx = c
                 /\ pending_subscribe[r].query = ev.query
        THEN IF send_ok(E[c]) THEN sent(E[c], OkEvent(ev))
             ELSE [E[c] EXCEPT !.fate = "evicted"]
        ELSE E[c]]

\* The event channels after publish: one send per sink of the query, and
\* the senders of the evicted sinks dropped.
fan_out(E, subs_for_query, ev) ==
    [c \in DOMAIN E |->
        IF \E id \in DOMAIN subs_for_query : subs_for_query[id] = c
        THEN IF send_ok(E[c]) THEN sent(E[c], OkEvent(ev))
             ELSE [E[c] EXCEPT !.fate = "evicted"]
        ELSE E[c]]

\* publish sending to the sinks of every query instead of looking up
\* ev.query.
publish_every_query(query) ==
    /\ npub' = npub + 1
    /\ LET ev == [query |-> query, n |-> npub + 1]
       IN  /\ event_chan' =
                [c \in DOMAIN event_chan |->
                    IF \E q \in DOMAIN subscriptions :
                          \E id \in DOMAIN subscriptions[q] : subscriptions[q][id] = c
                    THEN IF send_ok(event_chan[c]) THEN sent(event_chan[c], OkEvent(ev))
                         ELSE [event_chan[c] EXCEPT !.fate = "evicted"]
                    ELSE event_chan[c]]
           /\ subscriptions' =
                [q \in DOMAIN subscriptions |->
                    [id \in DOMAIN subscriptions[q]
                           \ disconnected(subscriptions[q], event_chan)
                        |-> subscriptions[q][id]]]
           /\ last' = Call("publish", query, "-", query \in DOMAIN subscriptions, "Ok")
    /\ UNCHANGED <<pending_subscribe, pending_unsubscribe, result_chan>>

\* SubscriptionRouter::publish
publish(query) ==
    /\ npub' = npub + 1
    /\ LET ev == [query |-> query, n |-> npub + 1]
       IN  IF query \notin DOMAIN subscriptions
           THEN /\ UNCHANGED <<subscriptions, event_chan>>
                /\ last' = Call("publish", query, "-", FALSE, "Ok")
           ELSE LET subs_for_query == subscriptions[query]
                    gone == disconnected(subs_for_query, event_chan)
                IN  /\ event_chan' = fan_out(event_chan, subs_for_query, ev)
                    /\ subscriptions' =
                         [subscriptions EXCEPT ![query] =
                             [id \in DOMAIN subs_for_query \ gone |-> subs_for_query[id]]]
                    /\ last' = Call("publish", query, "-", TRUE, "Ok")
    /\ UNCHANGED <<pending_subscribe, pending_unsubscribe, result_chan>>

\* ---------------------------------------------------------- add family
\* SubscriptionRouter::add, called with the sender of a channel the caller
\* has just created.
add(id, query) ==
    /\ LET event_tx == Len(event_chan) + 1
           E == Append(event_chan, NewEventChan(query, "active"))
       IN  /\ subscriptions' = router_add(subscriptions, id, query, event_tx)
           /\ event_chan' = senders_after_add(E, subscriptions, id, query, event_tx)
    /\ last' = Call("add", as_ref(id), "-", TRUE, "Ok")
    /\ UNCHANGED <<pending_subscribe, pending_unsubscribe, result_chan, npub>>

\* The event channels after an insert into pending_subscribe dropped the
\* entry it replaced (HashMap::insert returns the old value, which is
\* discarded).
event_after_insert(E, table, req_id) ==
    [c \in DOMAIN E |->
        IF req_id \in DOMAIN table /\ table[req_id].event_tx = c
        THEN [E[c] EXCEPT !.fate = "replaced"] ELSE E[c]]

\* pending_add leaving an entry that is already under the request id in
\* place, and dropping the senders it was given.
pending_add_keeps_entry(req_id, subs_id, query) ==
    /\ LET event_tx == Len(event_chan) + 1
           result_tx == Len(result_chan) + 1
           kept == req_id \in DOMAIN pending_subscribe
       IN  /\ pending_subscribe' =
                IF kept THEN pending_subscribe
                ELSE Put(pending_subscribe, req_id,
                         PendingSubscribe(subs_id, query, event_tx, result_tx))
           /\ event_chan' =
                Append(event_chan,
                       NewEventChan(query, IF kept THEN "replaced" ELSE "pending"))
           /\ result_chan' =
                Append(result_chan, NewResultChan)
    /\ last' = Call("pending_add", req_id, "-", req_id \in DOMAIN pending_subscribe, "Ok")
    /\ UNCHANGED <<subscriptions, pending_unsubscribe, npub>>

\* SubscriptionRouter::pending_add, called with the senders of an event
\* channel and of a result channel the caller has just created.
pending_add(req_id, subs_id, query) ==
    /\ LET event_tx == Len(event_chan) + 1
           result_tx == Len(result_chan) + 1
       IN  /\ pending_subscribe' =
                Put(pending_subscribe, req_id,
                    PendingSubscribe(subs_id, query, event_tx, result_tx))
           /\ event_chan' =
                event_after_insert(
                    Append(event_chan, NewEventChan(query, "pending")),
                    pending_subscribe, req_id)
           /\ result_chan' =
                Append(result_chan, NewResultChan)
    /\ last' = Call("pending_add", req_id, "-", req_id \in DOMAIN pending_subscribe, "Ok")
    /\ UNCHANGED <<subscriptions, pending_unsubscribe, npub>>

\* confirm_add installing the sink under the request id instead of the
\* subscription id captured in the pending entry.
confirm_add_by_req_id(req_id) ==
    /\ IF req_id \in DOMAIN pending_subscribe
       THEN LET p == pending_subscribe[req_id]
            IN  /\ pending_subscribe' = Del(pending_subscribe, req_id)
                /\ subscriptions' =
                     router_add(subscriptions, SubscriptionId(req_id), p.query, p.event_tx)
                /\ event_chan' =
                     senders_after_add(event_chan, subscriptions,
                                       SubscriptionId(req_id), p.query, p.event_tx)
                /\ result_chan' =
                     [result_chan EXCEPT ![p.result_tx] = sent(@, OkUnit)]
                /\ last' = Call("confirm_add", req_id, "-", TRUE, send_ret(result_chan[p.result_tx]))
       ELSE /\ UNCHANGED <<pending_subscribe, subscriptions, event_chan, result_chan>>
            /\ last' = Call("confirm_add", "-", "-", FALSE, "Ok")
    /\ UNCHANGED <<pending_unsubscribe, npub>>

\* confirm_add looking the entry up without taking it out of the table.
confirm_add_keep_pending(req_id) ==
    /\ IF req_id \in DOMAIN pending_subscribe
       THEN LET p == pending_subscribe[req_id]
            IN  /\ UNCHANGED pending_subscribe
                /\ subscriptions' =
                     router_add(subscriptions, p.id, p.query, p.event_tx)
                /\ event_chan' =
                     senders_after_add(event_chan, subscriptions,
                                       p.id, p.query, p.event_tx)
                /\ result_chan' =
                     [result_chan EXCEPT ![p.result_tx] = sent(@, OkUnit)]
                /\ last' = Call("confirm_add", req_id, "-", TRUE, send_ret(result_chan[p.result_tx]))
       ELSE /\ UNCHANGED <<pending_subscribe, subscriptions, event_chan, result_chan>>
            /\ last' = Call("confirm_add", "-", "-", FALSE, "Ok")
    /\ UNCHANGED <<pending_unsubscribe, npub>>

\* confirm_add reporting an unknown request id as an error.
confirm_add_unknown_is_error(req_id) ==
    /\ IF req_id \in DOMAIN pending_subscribe
       THEN LET p == pending_subscribe[req_id]
            IN  /\ pending_subscribe' = Del(pending_subscribe, req_id)
                /\ subscriptions' =
                     router_add(subscriptions, p.id, p.query, p.event_tx)
                /\ event_chan' =
                     senders_after_add(event_chan, subscriptions,
                                       p.id, p.query, p.event_tx)
                /\ result_chan' =
                     [result_chan EXCEPT ![p.result_tx] = sent(@, OkUnit)]
                /\ last' = Call("confirm_add", req_id, "-", TRUE, send_ret(result_chan[p.result_tx]))
       ELSE /\ UNCHANGED <<pending_subscribe, subscriptions, event_chan, result_chan>>
            /\ last' = Call("confirm_add", "-", "-", FALSE, "Err")
    /\ UNCHANGED <<pending_unsubscribe, npub>>

\* confirm_add undoing the installation when the send to the caller fails:
\* the sink is not installed and its sender is dropped.
confirm_add_rolls_back(req_id) ==
    /\ IF req_id \in DOMAIN pending_subscribe
       THEN LET p == pending_subscribe[req_id]
                ok == send_ok(result_chan[p.result_tx])
            IN  /\ pending_subscribe' = Del(pending_subscribe, req_id)
                /\ subscriptions' =
                     IF ok THEN router_add(subscriptions, p.id, p.query, p.event_tx)
                     ELSE subscriptions
                /\ event_chan' =
                     IF ok
                     THEN senders_after_add(event_chan, subscriptions,
                                            p.id, p.query, p.event_tx)
                     ELSE [event_chan EXCEPT ![p.event_tx].fate = "cancelled"]
                /\ result_chan' =
                     [result_chan EXCEPT ![p.result_tx] = sent(@, OkUnit)]
                /\ last' = Call("confirm_add", req_id, "-", TRUE, send_ret(result_chan[p.result_tx]))
       ELSE /\ UNCHANGED <<pending_subscribe, subscriptions, event_chan, result_chan>>
            /\ last' = Call("confirm_add", "-", "-", FALSE, "Ok")
    /\ UNCHANGED <<pending_unsubscribe, npub>>

\* SubscriptionRouter::confirm_add
confirm_add(req_id) ==
    /\ IF req_id \in DOMAIN pending_subscribe
       THEN LET p == pending_subscribe[req_id]
            IN  /\ pending_subscribe' = Del(pending_subscribe, req_id)
                /\ subscriptions' =
                     router_add(subscriptions, p.id, p.query, p.event_tx)
                /\ event_chan' =
                     senders_after_add(event_chan, subscriptions,
                                       p.id, p.query, p.event_tx)
                /\ result_chan' =
                     [result_chan EXCEPT ![p.result_tx] = sent(@, OkUnit)]
                /\ last' = Call("confirm_add", req_id, "-", TRUE, send_ret(result_chan[p.result_tx]))
       ELSE /\ UNCHANGED <<pending_subscribe, subscriptions, event_chan, result_chan>>
            /\ last' = Call("confirm_add", "-", "-", FALSE, "Ok")
    /\ UNCHANGED <<pending_unsubscribe, npub>>

\* cancel_add acknowledging with Ok(()) as confirm_add does.
cancel_add_sends_ok(req_id, err) ==
    /\ IF req_id \in DOMAIN pending_subscribe
       THEN LET p == pending_subscribe[req_id]
            IN  /\ pending_subscribe' = Del(pending_subscribe, req_id)
                /\ event_chan' = [event_chan EXCEPT ![p.event_tx].fate = "cancelled"]
                /\ result_chan' =
                     [result_chan EXCEPT ![p.result_tx] = sent(@, OkUnit)]
                /\ last' = Call("cancel_add", req_id, err, TRUE, send_ret(result_chan[p.result_tx]))
       ELSE /\ UNCHANGED <<pending_subscribe, event_chan, result_chan>>
            /\ last' = Call("cancel_add", "-", "-", FALSE, "Ok")
    /\ UNCHANGED <<subscriptions, pending_unsubscribe, npub>>

\* cancel_add looking the entry up without taking it out of the table, so
\* that its senders stay with the router.
cancel_add_keeps_entry(req_id, err) ==
    /\ IF req_id \in DOMAIN pending_subscribe
       THEN LET p == pending_subscribe[req_id]
            IN  /\ UNCHANGED <<pending_subscribe, event_chan>>
                /\ result_chan' =
                     [result_chan EXCEPT ![p.result_tx] = sent(@, Err(err))]
                /\ last' = Call("cancel_add", req_id, err, TRUE, send_ret(result_chan[p.result_tx]))
       ELSE /\ UNCHANGED <<pending_subscribe, event_chan, result_chan>>
            /\ last' = Call("cancel_add", "-", "-", FALSE, "Ok")
    /\ UNCHANGED <<subscriptions, pending_unsubscribe, npub>>

\* SubscriptionRouter::cancel_add
cancel_add(req_id, err) ==
    /\ IF req_id \in DOMAIN pending_subscribe
       THEN LET p == pending_subscribe[req_id]
            IN  /\ pending_subscribe' = Del(pending_subscribe, req_id)
                /\ event_chan' = [event_chan EXCEPT ![p.event_tx].fate = "cancelled"]
                /\ result_chan' =
                     [result_chan EXCEPT ![p.result_tx] = sent(@, Err(err))]
                /\ last' = Call("cancel_add", req_id, err, TRUE, send_ret(result_chan[p.result_tx]))
       ELSE /\ UNCHANGED <<pending_subscribe, event_chan, result_chan>>
            /\ last' = Call("cancel_add", "-", "-", FALSE, "Ok")
    /\ UNCHANGED <<subscriptions, pending_unsubscribe, npub>>

\* ------------------------------------------------------- remove family
\* SubscriptionRouter::remove
remove(id, query) ==
    /\ subscriptions' = router_remove(subscriptions, id, query)
    /\ event_chan' = senders_after_remove(event_chan, subscriptions, id, query)
    /\ last' = IF query \in DOMAIN subscriptions /\ id \in DOMAIN subscriptions[query]
               THEN Call("remove", as_ref(id), "-", TRUE, "Ok")
               ELSE Call("remove", "-", "-", FALSE, "Ok")
    /\ UNCHANGED <<pending_subscribe, pending_unsubscribe, result_chan, npub>>

\* pending_remove keying the entry by the subscription id instead of the
\* request id.
pending_remove_by_subs_id(req_id, subs_id, query) ==
    /\ LET result_tx == Len(result_chan) + 1
       IN  /\ pending_unsubscribe' =
                Put(pending_unsubscribe, as_ref(subs_id),
                    PendingUnsubscribe(subs_id, query, result_tx))
           /\ result_chan' = Append(result_chan, NewResultChan)
    /\ last' = Call("pending_remove", req_id, "-", req_id \in DOMAIN pending_unsubscribe, "Ok")
    /\ UNCHANGED <<subscriptions, pending_subscribe, event_chan, npub>>

\* pending_remove taking the subscription out of the routing table at once
\* instead of waiting for confirm_remove.
pending_remove_removes_now(req_id, subs_id, query) ==
    /\ LET result_tx == Len(result_chan) + 1
       IN  /\ pending_unsubscribe' =
                Put(pending_unsubscribe, req_id,
                    PendingUnsubscribe(subs_id, query, result_tx))
           /\ result_chan' =
                Append(result_chan, NewResultChan)
    /\ subscriptions' = router_remove(subscriptions, subs_id, query)
    /\ event_chan' = senders_after_remove(event_chan, subscriptions, subs_id, query)
    /\ last' = Call("pending_remove", req_id, "-", req_id \in DOMAIN pending_unsubscribe, "Ok")
    /\ UNCHANGED <<pending_subscribe, npub>>

\* SubscriptionRouter::pending_remove, called with the sender of a result
\* channel the caller has just created.
pending_remove(req_id, subs_id, query) ==
    /\ LET result_tx == Len(result_chan) + 1
       IN  /\ pending_unsubscribe' =
                Put(pending_unsubscribe, req_id,
                    PendingUnsubscribe(subs_id, query, result_tx))
           /\ result_chan' =
                Append(result_chan, NewResultChan)
    /\ last' = Call("pending_remove", req_id, "-", req_id \in DOMAIN pending_unsubscribe, "Ok")
    /\ UNCHANGED <<subscriptions, pending_subscribe, event_chan, npub>>

\* confirm_remove acknowledging without calling remove.
confirm_remove_keep_sink(req_id) ==
    /\ IF req_id \in DOMAIN pending_unsubscribe
       THEN LET p == pending_unsubscribe[req_id]
            IN  /\ pending_unsubscribe' = Del(pending_unsubscribe, req_id)
                /\ UNCHANGED <<subscriptions, event_chan>>
                /\ result_chan' =
                     [result_chan EXCEPT ![p.result_tx] = sent(@, OkUnit)]
                /\ last' = Call("confirm_remove", req_id, "-", TRUE, send_ret(result_chan[p.result_tx]))
       ELSE /\ UNCHANGED <<pending_unsubscribe, subscriptions, event_chan, result_chan>>
            /\ last' = Call("confirm_remove", "-", "-", FALSE, "Ok")
    /\ UNCHANGED <<pending_subscribe, npub>>

\* confirm_remove replying only when it found the subscription in the
\* routing table.
confirm_remove_only_if_active(req_id) ==
    /\ IF req_id \in DOMAIN pending_unsubscribe
       THEN LET p == pending_unsubscribe[req_id]
                found == /\ p.query \in DOMAIN subscriptions
                         /\ p.id \in DOMAIN subscriptions[p.query]
            IN  /\ pending_unsubscribe' = Del(pending_unsubscribe, req_id)
                /\ subscriptions' = router_remove(subscriptions, p.id, p.query)
                /\ event_chan' =
                     senders_after_remove(event_chan, subscriptions, p.id, p.query)
                /\ result_chan' =
                     IF found
                     THEN [result_chan EXCEPT ![p.result_tx] = sent(@, OkUnit)]
                     ELSE result_chan
                /\ last' = Call("confirm_remove", req_id, "-", TRUE,
                                IF found THEN send_ret(result_chan[p.result_tx]) ELSE "Ok")
       ELSE /\ UNCHANGED <<pending_unsubscribe, subscriptions, event_chan, result_chan>>
            /\ last' = Call("confirm_remove", "-", "-", FALSE, "Ok")
    /\ UNCHANGED <<pending_subscribe, npub>>

\* SubscriptionRouter::confirm_remove
confirm_remove(req_id) ==
    /\ IF req_id \in DOMAIN pending_unsubscribe
       THEN LET p == pending_unsubscribe[req_id]
            IN  /\ pending_unsubscribe' = Del(pending_unsubscribe, req_id)
                /\ subscriptions' = router_remove(subscriptions, p.id, p.query)
                /\ event_chan' =
                     senders_after_remove(event_chan, subscriptions, p.id, p.query)
                /\ result_chan' =
                     [result_chan EXCEPT ![p.result_tx] = sent(@, OkUnit)]
                /\ last' = Call("confirm_remove", req_id, "-", TRUE, send_ret(result_chan[p.result_tx]))
       ELSE /\ UNCHANGED <<pending_unsubscribe, subscriptions, event_chan, result_chan>>
            /\ last' = Call("confirm_remove", "-", "-", FALSE, "Ok")
    /\ UNCHANGED <<pending_subscribe, npub>>

\* cancel_remove looking the entry up without taking it out of the table.
cancel_remove_keeps_entry(req_id, err) ==
    /\ IF req_id \in DOMAIN pending_unsubscribe
       THEN LET p == pending_unsubscribe[req_id]
            IN  /\ UNCHANGED pending_unsubscribe
                /\ result_chan' =
                     [result_chan EXCEPT ![p.result_tx] = sent(@, Err(err))]
                /\ last' = Call("cancel_remove", req_id, err, TRUE, send_ret(result_chan[p.result_tx]))
       ELSE /\ UNCHANGED <<pending_unsubscribe, result_chan>>
            /\ last' = Call("cancel_remove", "-", "-", FALSE, "Ok")
    /\ UNCHANGED <<subscriptions, pending_subscribe, event_chan, npub>>

\* cancel_remove removing the subscription as confirm_remove does.
cancel_remove_removes(req_id, err) ==
    /\ IF req_id \in DOMAIN pending_unsubscribe
       THEN LET p == pending_unsubscribe[req_id]
            IN  /\ pending_unsubscribe' = Del(pending_unsubscribe, req_id)
                /\ subscriptions' = router_remove(subscriptions, p.id, p.query)
                /\ event_chan' =
                     senders_after_remove(event_chan, subscriptions, p.id, p.query)
                /\ result_chan' =
                     [result_chan EXCEPT ![p.result_tx] = sent(@, Err(err))]
                /\ last' = Call("cancel_remove", req_id, err, TRUE, send_ret(result_chan[p.result_tx]))
       ELSE /\ UNCHANGED <<pending_unsubscribe, subscriptions, event_chan, result_chan>>
            /\ last' = Call("cancel_remove", "-", "-", FALSE, "Ok")
    /\ UNCHANGED <<pending_subscribe, npub>>

\* SubscriptionRouter::cancel_remove
cancel_remove(req_id, err) ==
    /\ IF req_id \in DOMAIN pending_unsubscribe
       THEN LET p == pending_unsubscribe[req_id]
            IN  /\ pending_unsubscribe' = Del(pending_unsubscribe, req_id)
                /\ result_chan' =
                     [result_chan EXCEPT ![p.result_tx] = sent(@, Err(err))]
                /\ last' = Call("cancel_remove", req_id, err, TRUE, send_ret(result_chan[p.result_tx]))
       ELSE /\ UNCHANGED <<pending_unsubscribe, result_chan>>
            /\ last' = Call("cancel_remove", "-", "-", FALSE, "Ok")
    /\ UNCHANGED <<subscriptions, pending_subscribe, event_chan, npub>>

\* ------------------------------------------------------- the consumers
\* The holder of a Subscription (or of a bare event receiver) drops it.
\* Only a drop made while the router holds the sender is a step: after
\* that nothing can be sent to the channel, and a drop changes nothing the
\* router or its callers can observe.
drop_event_rx(c) ==
    /\ event_chan[c].rx
    /\ event_tx_held(c)
    /\ event_chan' = [event_chan EXCEPT ![c].rx = FALSE]
    /\ last' = Call("drop_event_rx", "-", "-", TRUE, "Ok")
    /\ UNCHANGED <<subscriptions, pending_subscribe, pending_unsubscribe,
                   result_chan, npub>>

\* The caller waiting for an acknowledgement gives up and drops result_rx.
drop_result_rx(c) ==
    /\ result_chan[c].rx
    /\ result_tx_held(c)
    /\ result_chan' = [result_chan EXCEPT ![c].rx = FALSE]
    /\ last' = Call("drop_result_rx", "-", "-", TRUE, "Ok")
    /\ UNCHANGED <<subscriptions, pending_subscribe, pending_unsubscribe,
                   event_chan, npub>>

\* The channels created so far.
channels == Len(event_chan) + Len(result_chan)

\* The router driven by any sequence of calls, each with the senders of
\* channels its caller has just created, while receivers may be dropped.
Next ==
    \/ \E query \in Queries :
          npub < MaxPublish /\ publish(query)
          /\ UNCHANGED outside
    \/ \E id \in SubsIds, query \in Queries :
          channels + 1 <= MaxChannels /\ add(id, query)
          /\ UNCHANGED outside
    \/ \E req_id \in ReqIds, id \in SubsIds, query \in Queries :
          channels + 2 <= MaxChannels /\ pending_add(req_id, id, query)
          /\ UNCHANGED outside
    \/ \E req_id \in ReqIds : confirm_add(req_id)
          /\ UNCHANGED outside
    \/ \E req_id \in ReqIds, err \in Errors : cancel_add(req_id, err)
          /\ UNCHANGED outside
    \/ \E id \in SubsIds, query \in Queries : remove(id, query)
          /\ UNCHANGED outside
    \/ \E req_id \in ReqIds, id \in SubsIds, query \in Queries :
          channels + 1 <= MaxChannels /\ pending_remove(req_id, id, query)
          /\ UNCHANGED outside
    \/ \E req_id \in ReqIds : confirm_remove(req_id)
          /\ UNCHANGED outside
    \/ \E req_id \in ReqIds, err \in Errors : cancel_remove(req_id, err)
          /\ UNCHANGED outside
    \/ \E c \in DOMAIN event_chan :
          dropped_rx < MaxDrops /\ drop_event_rx(c)
          /\ UNCHANGED outside
    \/ \E c \in DOMAIN result_chan :
          dropped_rx < MaxDrops /\ drop_result_rx(c)
          /\ UNCHANGED outside

Spec == Init /\ [][Next]_vars

\* ------------------------------------------- the consumer of a stream
\* The largest capacity of a bounded event channel.
MaxBufSize == 1

\* What ChannelRx::recv / poll_recv yields on channel ch: the oldest value
\* not yet taken out; without one, the end of the stream once every sender
\* is dropped, and nothing yet (the receiver waits) while a sender is held.
recv_outcome(ch, tx_held) ==
    IF queued(ch) > 0 THEN "Some"
    ELSE IF tx_held THEN "Pending"
    ELSE "None"

\* The channel after recv / poll_recv took out the value it yielded, if any.
received(ch) == IF queued(ch) > 0 THEN [ch EXCEPT !.nread = @ + 1] ELSE ch

\* The value the last recv / poll_recv on ch yielded, when it yielded one.
yielded(ch) == ch.buf[ch.nread]

\* impl Stream for Subscription: poll_next on the handle holding the
\* receiver of event channel c.
poll_next(c) ==
    /\ event_chan[c].rx
    /\ event_chan' = [event_chan EXCEPT ![c] = received(@)]
    /\ last' = Call("poll_next", ToString(c), "-", queued(event_chan[c]) > 0,
                    recv_outcome(event_chan[c], event_tx_held(c)))
    /\ UNCHANGED <<subscriptions, pending_subscribe, pending_unsubscribe,
                   result_chan, npub>>

\* SubscriptionRouter::add, called with the sender of a bounded channel of
\* capacity buf_size the caller has just created.
add_with_buf_size(id, query, buf_size) ==
    /\ LET event_tx == Len(event_chan) + 1
           E == Append(event_chan,
                       [NewEventChan(query, "active") EXCEPT !.cap = buf_size])
       IN  /\ subscriptions' = router_add(subscriptions, id, query, event_tx)
           /\ event_chan' = senders_after_add(E, subscriptions, id, query, event_tx)
    /\ last' = Call("add", as_ref(id), "-", TRUE, "Ok")
    /\ UNCHANGED <<pending_subscribe, pending_unsubscribe, result_chan, npub>>

\* The query the subscriptions of StreamSpec are made for.
StreamQueries == {"q1"}

\* The router and the consumers of its event channels: subscriptions for one
\* query are installed (directly, over unbounded and bounded channels, or by
\* the handshake under the text of their id), cancelled and terminated,
\* events are published, and the holders of the receivers poll them or drop
\* them.
StreamNext ==
    \/ \E query \in StreamQueries :
          npub < MaxPublish /\ publish(query)
          /\ UNCHANGED outside
    \/ \E id \in SubsIds, query \in StreamQueries, buf_size \in 0..MaxBufSize :
          channels + 1 <= MaxChannels /\ add_with_buf_size(id, query, buf_size)
          /\ UNCHANGED outside
    \/ \E req_id \in ReqIds, query \in StreamQueries :
          channels + 2 <= MaxChannels
          /\ pending_add(req_id, SubscriptionId(req_id), query)
          /\ UNCHANGED outside
    \/ \E req_id \in ReqIds : confirm_add(req_id)
          /\ UNCHANGED outside
    \/ \E req_id \in ReqIds, err \in Errors : cancel_add(req_id, err)
          /\ UNCHANGED outside
    \/ \E req_id \in ReqIds, query \in StreamQueries :
          channels + 1 <= MaxChannels
          /\ pending_remove(req_id, SubscriptionId(req_id), query)
          /\ UNCHANGED outside
    \/ \E req_id \in ReqIds : confirm_remove(req_id)
          /\ UNCHANGED outside
    \/ \E c \in DOMAIN event_chan : poll_next(c)
          /\ UNCHANGED outside
    \/ \E c \in DOMAIN event_chan :
          dropped_rx < MaxDrops /\ drop_event_rx(c)
          /\ UNCHANGED outside

StreamSpec == Init /\ [][StreamNext]_vars

\* ------------------------------------ the callers awaiting a reply
\* The number of subscribe requests made.
MaxPendingAdds == 2

\* The caller of pending_add / pending_remove awaits the acknowledgement:
\* result_rx.recv() on the receiver of result channel c.
recv(c) ==
    /\ result_chan[c].rx
    /\ result_chan' = [result_chan EXCEPT ![c] = received(@)]
    /\ last' = Call("recv", ToString(c), "-", queued(result_chan[c]) > 0,
                    recv_outcome(result_chan[c], result_tx_held(c)))
    /\ UNCHANGED <<subscriptions, pending_subscribe, pending_unsubscribe,
                   event_chan, npub>>

\* The router and the callers of subscribe: requests are registered, under
\* a fresh request id or one in use, and confirmed or cancelled, while the
\* callers await the reply on their result channels.
ReplyNext ==
    \/ \E req_id \in ReqIds, id \in SubsIds, query \in StreamQueries :
          Len(result_chan) < MaxPendingAdds /\ pending_add(req_id, id, query)
          /\ UNCHANGED outside
    \/ \E req_id \in ReqIds : confirm_add(req_id)
          /\ UNCHANGED outside
    \/ \E req_id \in ReqIds, err \in Errors : cancel_add(req_id, err)
          /\ UNCHANGED outside
    \/ \E c \in DOMAIN result_chan : recv(c)
          /\ UNCHANGED outside

ReplySpec == Init /\ [][ReplyNext]_vars

\* ------------------------------------------- Subscription::terminate
\* The number of Subscription handles created.
MaxHandles == 2

\* struct TerminateSubscription
TerminateSubscription(id, query, result_tx) ==
    [id |-> id, query |-> query, result_tx |-> result_tx]

\* Subscription::new: a handle with its id and query; and, of its terminate
\* call, where it stands ("held": not called, "sent": awaiting the reply,
\* "returned"), the result channel it created and the Result it returned.
Subscription(id, query) ==
    [id |-> id, query |-> query, pc |-> "held", result_rx |-> 0, ret |-> <<"-">>]

\* The error of a failed send on the control channel, passed on by `?`.
SendFailed == Err("send failed")

\* Error::client_internal_error of terminate.
NoReply == Err("failed to hear back from subscription termination request")

\* The sender of result channel c is held: by a message waiting in the
\* control channel, or by a message in the hands of the driver.
reply_tx_held(c) ==
    \/ \E msg \in driver : msg.result_tx = c
    \/ /\ terminate_chan.rx
       /\ \E i \in DOMAIN terminate_chan.buf :
             i > terminate_chan.nread /\ terminate_chan.buf[i].result_tx = c

\* A caller is handed a Subscription.
new_subscription(id, query) ==
    /\ handles' = Append(handles, Subscription(id, query))
    /\ UNCHANGED <<subscriptions, pending_subscribe, pending_unsubscribe,
                   event_chan, result_chan, npub, last,
                   terminate_chan, driver, conv>>

\* terminate sending without looking at the outcome of the send.
terminate_send_unchecked(h) ==
    /\ handles[h].pc = "held"
    /\ LET result_tx == Len(result_chan) + 1
           msg == TerminateSubscription(handles[h].id, handles[h].query, result_tx)
       IN  /\ terminate_chan' = sent(terminate_chan, msg)
           /\ result_chan' = Append(result_chan, NewResultChan)
           /\ handles' = [handles EXCEPT ![h].pc = "sent",
                                         ![h].result_rx = result_tx]
    /\ UNCHANGED <<subscriptions, pending_subscribe, pending_unsubscribe,
                   event_chan, npub, last, driver, conv>>

\* Subscription::terminate up to the end of its first await: the result
\* channel is created and the message sent on the control channel; a failed
\* send ends the call, and the message and the receiver are dropped.
terminate_send(h) ==
    /\ handles[h].pc = "held"
    /\ LET result_tx == Len(result_chan) + 1
           msg == TerminateSubscription(handles[h].id, handles[h].query, result_tx)
       IN  IF send_ok(terminate_chan)
           THEN /\ terminate_chan' = sent(terminate_chan, msg)
                /\ result_chan' = Append(result_chan, NewResultChan)
                /\ handles' = [handles EXCEPT ![h].pc = "sent",
                                              ![h].result_rx = result_tx]
           ELSE /\ UNCHANGED terminate_chan
                /\ result_chan' =
                     Append(result_chan, [NewResultChan EXCEPT !.rx = FALSE])
                /\ handles' = [handles EXCEPT ![h].pc = "returned",
                                              ![h].result_rx = result_tx,
                                              ![h].ret = SendFailed]
    /\ UNCHANGED <<subscriptions, pending_subscribe, pending_unsubscribe,
                   event_chan, npub, last, driver, conv>>

\* terminate returning Ok(()) whatever it hears back.
terminate_recv_always_ok(h) ==
    /\ handles[h].pc = "sent"
    /\ LET c == handles[h].result_rx
           outcome == recv_outcome(result_chan[c], reply_tx_held(c))
       IN  /\ outcome # "Pending"
           /\ handles' = [handles EXCEPT ![h].pc = "returned", ![h].ret = OkUnit]
           /\ result_chan' =
                [result_chan EXCEPT ![c] = [received(@) EXCEPT !.rx = FALSE]]
    /\ UNCHANGED <<subscriptions, pending_subscribe, pending_unsubscribe,
                   event_chan, npub, last, terminate_chan, driver, conv>>

\* Subscription::terminate from result_rx.recv().await on: it goes on when
\* recv yields, returns the value received, or the internal error when the
\* channel was closed without one; the handle and result_rx are dropped.
terminate_recv(h) ==
    /\ handles[h].pc = "sent"
    /\ LET c == handles[h].result_rx
           outcome == recv_outcome(result_chan[c], reply_tx_held(c))
       IN  /\ outcome # "Pending"
           /\ handles' =
                [handles EXCEPT ![h].pc = "returned",
                                ![h].ret = IF outcome = "Some"
                                           THEN yielded(received(result_chan[c]))
                                           ELSE NoReply]
           /\ result_chan' =
                [result_chan EXCEPT ![c] = [received(@) EXCEPT !.rx = FALSE]]
    /\ UNCHANGED <<subscriptions, pending_subscribe, pending_unsubscribe,
                   event_chan, npub, last, terminate_chan, driver, conv>>

\* The driver takes the next TerminateSubscription out of the control
\* channel.
driver_recv ==
    /\ terminate_chan.rx
    /\ queued(terminate_chan) > 0
    /\ terminate_chan' = received(terminate_chan)
    /\ driver' = driver \cup {yielded(received(terminate_chan))}
    /\ UNCHANGED <<subscriptions, pending_subscribe, pending_unsubscribe,
                   event_chan, result_chan, npub, last, handles, conv>>

\* The driver communicates the result r of a termination request on the
\* result_tx of its message, and is done with the message.
driver_reply(msg, r) ==
    /\ msg \in driver
    /\ result_chan' = [result_chan EXCEPT ![msg.result_tx] = sent(@, r)]
    /\ driver' = driver \ {msg}
    /\ UNCHANGED <<subscriptions, pending_subscribe, pending_unsubscribe,
                   event_chan, npub, last, terminate_chan, handles, conv>>

\* The driver drops a message without communicating a result.
driver_drop(msg) ==
    /\ msg \in driver
    /\ driver' = driver \ {msg}
    /\ UNCHANGED <<subscriptions, pending_subscribe, pending_unsubscribe,
                   event_chan, result_chan, npub, last,
                   terminate_chan, handles, conv>>

\* The driver stops: the receiver of the control channel is dropped, and
\* with it the messages still waiting in the channel.
driver_close ==
    /\ terminate_chan.rx
    /\ terminate_chan' = [terminate_chan EXCEPT !.rx = FALSE]
    /\ UNCHANGED <<subscriptions, pending_subscribe, pending_unsubscribe,
                   event_chan, result_chan, npub, last, handles, driver, conv>>

\* The results a driver communicates.
Results == {OkUnit} \cup {Err(e) : e \in Errors}

\* The handles, their terminate calls, and the driver answering them.
TerminateNext ==
    \/ \E id \in SubsIds, query \in Queries :
          Len(handles) < MaxHandles /\ new_subscription(id, query)
    \/ \E h \in DOMAIN handles : terminate_send(h)
    \/ \E h \in DOMAIN handles : terminate_recv(h)
    \/ driver_recv
    \/ \E msg \in driver, r \in Results : driver_reply(msg, r)
    \/ \E msg \in driver : driver_drop(msg)
    \/ driver_close

TerminateSpec == Init /\ [][TerminateNext]_vars

\* ------------------------------------------- SubscriptionId and rpc Id
\* The integer JSON-RPC ids converted are -MaxNum .. MaxNum.
MaxNum == 24

\* enum Id of the JSON-RPC layer: Id::Str(String), Id::Num(i64), Id::None.
IdStr(s) == [kind |-> "Str", str |-> s, num |-> 0]
IdNum(i) == [kind |-> "Num", str |-> "", num |-> i]
IdNone == [kind |-> "None", str |-> "", num |-> 0]

\* Result<SubscriptionId, Error>.
OkId(id) == [ok |-> TRUE, id |-> id, err |-> ""]
ErrId(msg) == [ok |-> FALSE, id |-> SubscriptionId(""), err |-> msg]

\* The texts a SubscriptionId or a string-typed id is made of here: plain
\* names, the empty text, and texts that look like numbers.
Texts == IdTexts \cup {"", "7", "007", "-3"}

\* format!("{}", i) for an integer: an optional sign and the decimal digits,
\* without leading zeros.
Digits == <<"0", "1", "2", "3", "4", "5", "6", "7", "8", "9">>

RECURSIVE format(_)
format(i) ==
    IF i < 0 THEN "-" \o format(0 - i)
    ELSE IF i < 10 THEN Digits[i + 1]
    ELSE format(i \div 10) \o Digits[(i % 10) + 1]

\* impl Into<Id> for SubscriptionId
into(id) == IdStr(id.text)

\* try_into taking the empty text of a string-typed id for an absent id.
try_into_empty_is_absent(rpc) ==
    CASE rpc.kind = "Str" ->
            IF rpc.str = ""
            THEN ErrId("cannot convert an empty JSON-RPC ID into a subscription ID")
            ELSE OkId(SubscriptionId(rpc.str))
      [] rpc.kind = "Num" -> OkId(SubscriptionId(format(rpc.num)))
      [] rpc.kind = "None" ->
            ErrId("cannot convert an empty JSON-RPC ID into a subscription ID")

\* impl TryInto<SubscriptionId> for Id
try_into(rpc) ==
    CASE rpc.kind = "Str" -> OkId(SubscriptionId(rpc.str))
      [] rpc.kind = "Num" -> OkId(SubscriptionId(format(rpc.num)))
      [] rpc.kind = "None" ->
            ErrId("cannot convert an empty JSON-RPC ID into a subscription ID")

\* A conversion starts from a SubscriptionId or from an id of the JSON-RPC
\* layer; what is not given yet is blank.
GivenSubscriptionId(id) ==
    [stage |-> "subs", given |-> "subs", id |-> id, rpc |-> IdNone,
     result |-> ErrId("")]
GivenRpcId(rpc) ==
    [stage |-> "rpc", given |-> "rpc", id |-> SubscriptionId(""), rpc |-> rpc,
     result |-> ErrId("")]

Inputs ==
    {GivenSubscriptionId(SubscriptionId(s)) : s \in Texts}
    \cup {GivenRpcId(IdStr(s)) : s \in Texts}
    \cup {GivenRpcId(IdNum(i)) : i \in (0 - MaxNum)..MaxNum}
    \cup {GivenRpcId(IdNone)}

\* A fresh router, and one SubscriptionId or JSON-RPC id to convert.
IdInit ==
    /\ NewRouter
    /\ NoHandles
    /\ conv \in Inputs

\* let rpc: Id = id.into();
convert_into ==
    /\ conv.stage = "subs"
    /\ conv' = [conv EXCEPT !.stage = "rpc", !.rpc = into(conv.id)]

\* let result: Result<SubscriptionId> = rpc.try_into();
convert_try_into ==
    /\ conv.stage = "rpc"
    /\ conv' = [conv EXCEPT !.stage = "done", !.result = try_into(conv.rpc)]

\* The SubscriptionId a conversion produced is converted in its turn.
convert_again ==
    /\ conv.stage = "done"
    /\ conv.result.ok
    /\ conv.given = "rpc"
    /\ conv' = GivenSubscriptionId(conv.result.id)

router_left_alone ==
    UNCHANGED <<subscriptions, pending_subscribe, pending_unsubscribe,
                event_chan, result_chan, npub, last, terminate_chan,
                handles, driver>>

IdNext ==
    \/ convert_into /\ router_left_alone
    \/ convert_try_into /\ router_left_alone
    \/ convert_again /\ router_left_alone

IdSpec == IdInit /\ [][IdNext]_vars

\* ===================================================================
\* Properties
\* ===================================================================

\* The queries under which id is listed in the routing table.
listed_under(id) == {q \in DOMAIN subscriptions : id \in DOMAIN subscriptions[q]}

\* The subscription ids with a sink in the routing table.
active_ids == {id \in SubsIds : is_active(id)}

\* ------------------------------------------------------------------ C1
\* C1 (as claimed): after any sequence of router operations a SubscriptionId
\* is a key of at most one inner map of the routing table.
C1_Uniqueness == \A id \in SubsIds : Cardinality(listed_under(id)) <= 1

\* The step installs a sink (add, or confirm_add of a present entry) for an
\* id that is listed under a query other than the one it is installed under.
CrossQueryInstall ==
    \/ /\ last'.op = "add"
       /\ \E q \in DOMAIN subscriptions' :
             /\ SubscriptionId(last'.key) \in DOMAIN subscriptions'[q]
             /\ subscriptions'[q][SubscriptionId(last'.key)] = Len(event_chan')
             /\ listed_under(SubscriptionId(last'.key)) \ {q} # {}
    \/ /\ last'.op = "confirm_add"
       /\ last'.hit
       /\ LET p == pending_subscribe[last'.key]
          IN  listed_under(p.id) \ {p.query} # {}

\* C1 (amended): every router operation keeps each SubscriptionId under at
\* most one query, except an add / confirm_add that installs an id which is
\* at that moment listed under a different query.
C1_UniquenessKept ==
    [][(C1_Uniqueness /\ ~CrossQueryInstall) => C1_Uniqueness']_vars

\* Two subscriptions are active under different queries, the second one
\* installed by confirm_add, and each id is under one query.
C1_Witness ==
    /\ C1_Uniqueness
    /\ last.op = "confirm_add" /\ last.hit
    /\ active_ids = SubsIds
    /\ \A q \in Queries : q \in DOMAIN subscriptions /\ DOMAIN subscriptions[q] # {}

\* ------------------------------------------------------------------ C2
\* C2 (as claimed): no request id is a key of pending_subscribe and of
\* pending_unsubscribe at the same time.
C2_Disjointness == DOMAIN pending_subscribe \cap DOMAIN pending_unsubscribe = {}

\* The step registers a request id in one pending table while the other
\* pending table has an entry under that id.
ReusedReqId ==
    \/ last'.op = "pending_add" /\ last'.key \in DOMAIN pending_unsubscribe
    \/ last'.op = "pending_remove" /\ last'.key \in DOMAIN pending_subscribe

\* C2 (amended): every router operation keeps the two pending tables
\* disjoint, except a pending_add / pending_remove called with a request id
\* that has an entry in the other table.
C2_DisjointnessKept ==
    [][(C2_Disjointness /\ ~ReusedReqId) => C2_Disjointness']_vars

\* One request is pending in each table, under different request ids.
C2_Witness ==
    /\ C2_Disjointness
    /\ pending_subscribe # EmptyMap
    /\ pending_unsubscribe # EmptyMap
    /\ last.op \in {"pending_add", "pending_remove"}

\* ------------------------------------------------------------------ C3
\* The event published by the step, when the step is a publish call.
published == [query |-> last'.key, n |-> npub']

\* The sinks registered under query q (none when q has no entry).
sinks(q) ==
    IF q \in DOMAIN subscriptions
    THEN {subscriptions[q][id] : id \in DOMAIN subscriptions[q]}
    ELSE {}

\* The events of every event channel are in the order of the publish calls.
InPublishOrder ==
    \A c \in DOMAIN event_chan :
        \A i, j \in DOMAIN event_chan[c].buf :
            i < j => event_chan[c].buf[i][2].n < event_chan[c].buf[j][2].n

\* C3: when publish(e) finds k sinks under e.query and the receivers of all
\* of them are alive, each of the k channels gets e appended exactly once;
\* and every channel holds its events in the order of the publish calls.
C3_FanOut ==
    /\ []InPublishOrder
    /\ [][(/\ last'.op = "publish"
           /\ \A c \in sinks(last'.key) : event_chan[c].rx)
          => \A c \in sinks(last'.key) :
                event_chan'[c].buf = Append(event_chan[c].buf, OkEvent(published))]_vars

\* Two sinks under one query, both receivers alive, each holding the two
\* events published for the query, in order.
C3_Witness ==
    /\ last.op = "publish"
    /\ \E c1, c2 \in sinks(last.key) :
          /\ c1 # c2
          /\ \A c \in {c1, c2} :
                /\ event_chan[c].rx
                /\ event_chan[c].buf = <<OkEvent([query |-> last.key, n |-> 1]),
                                         OkEvent([query |-> last.key, n |-> 2])>>

\* ------------------------------------------------------------------ C4
\* C4: publish(e) changes neither the inner map nor the channels of a query
\* other than e.query, creates no entry, and when e.query has no entry it
\* changes nothing of the router and sends nothing.
C4_QueryIsolation ==
    [][last'.op = "publish" =>
         /\ DOMAIN subscriptions' = DOMAIN subscriptions
         /\ \A q \in DOMAIN subscriptions \ {last'.key} :
               /\ subscriptions'[q] = subscriptions[q]
               /\ \A c \in sinks(q) : event_chan'[c] = event_chan[c]
         /\ last'.key \notin DOMAIN subscriptions =>
               UNCHANGED <<subscriptions, pending_subscribe, pending_unsubscribe,
                           event_chan, result_chan>>]_vars

\* After a publish for one query, its sink holds the event while a live sink
\* of the other query holds nothing.
C4_Witness ==
    /\ last.op = "publish" /\ last.hit
    /\ \E c \in sinks(last.key) : Len(event_chan[c].buf) = npub
    /\ \E q \in DOMAIN subscriptions \ {last.key} :
          \E c \in sinks(q) : event_chan[c].rx /\ event_chan[c].buf = <<>>

\* ------------------------------------------------------------------ C5
\* A channel whose sender the router has dropped is never sent to again.
NoSendAfterDrop ==
    \A c \in DOMAIN event_chan :
        ~event_tx_held(c) => event_chan'[c] = event_chan[c]

\* What publish does to the sinks of its query: a sink whose receiver is gone
\* is taken out of active[q] and its sender dropped, a live sink stays and
\* gets the event.
Reaped ==
    \A q \in DOMAIN subscriptions, c \in DOMAIN event_chan :
        \A id \in DOMAIN subscriptions[q] :
            (q = last'.key /\ c = subscriptions[q][id]) =>
                IF event_chan[c].rx
                THEN /\ id \in DOMAIN subscriptions'[q]
                     /\ subscriptions'[q][id] = c
                     /\ event_chan'[c].buf = Append(event_chan[c].buf, OkEvent(published))
                ELSE /\ id \notin DOMAIN subscriptions'[q]
                     /\ event_chan'[c].fate = "evicted"
                     /\ event_chan'[c].buf = event_chan[c].buf

\* The ids whose sink under the query of the publish call has lost its
\* receiver.
Disconnected(q) ==
    {id \in DOMAIN subscriptions[q] : ~event_chan[subscriptions[q][id]].rx}

\* C5 (as claimed): a sink whose receiver was dropped is out of active[q] at
\* the end of publish and is_active of its id is false.
C5_Reaping ==
    [][(last'.op = "publish" /\ last'.hit) =>
         /\ Reaped
         /\ \A q \in DOMAIN subscriptions : q = last'.key =>
               \A id \in Disconnected(q) : ~is_active(id)']_vars

\* C5 (amended): the sink is out of active[q] at the end of publish, is never
\* sent to again, the live sinks under q still get the event; is_active of
\* its id is false when the id is listed under no other query.
C5_ReapingUnderQuery ==
    /\ [][NoSendAfterDrop]_vars
    /\ [][(last'.op = "publish" /\ last'.hit) =>
            /\ Reaped
            /\ \A q \in DOMAIN subscriptions : q = last'.key =>
                  \A id \in Disconnected(q) :
                      listed_under(id) = {q} => ~is_active(id)']_vars

\* A publish evicted a sink whose receiver was dropped, and another sink of
\* the query got the event.
C5_Witness ==
    /\ last.op = "publish" /\ last.hit
    /\ \E c \in DOMAIN event_chan :
          /\ event_chan[c].fate = "evicted"
          /\ event_chan[c].query = last.key
          /\ event_chan[c].buf = <<>>
    /\ \E c \in sinks(last.key) :
          event_chan[c].buf = <<OkEvent([query |-> last.key, n |-> npub])>>
    /\ active_ids # SubsIds

\* ------------------------------------------------------------------ C6
\* Nothing was enqueued on the event channel of a pending-subscribe entry.
PendingUnsent ==
    \A r \in DOMAIN pending_subscribe :
        event_chan[pending_subscribe[r].event_tx].buf = <<>>

\* C6: an event published while a subscription is pending is not enqueued on
\* its event_tx, at publish time or at confirm_add: the channel of a pending
\* entry is empty, confirm_add enqueues no event, and an event is enqueued
\* only by the publish call that carries it, on a sink active at that call.
C6_PendingGate ==
    /\ []PendingUnsent
    /\ [][\A c \in DOMAIN event_chan :
            event_chan'[c].buf # event_chan[c].buf =>
                /\ last'.op = "publish"
                /\ c \in sinks(last'.key)
                /\ event_chan'[c].buf = Append(event_chan[c].buf, OkEvent(published))]_vars

\* A publish for the query of a pending subscription reached an active sink
\* of that query and left the pending entry's channel empty.
C6_Witness ==
    /\ last.op = "publish" /\ last.hit
    /\ \E r \in DOMAIN pending_subscribe :
          /\ pending_subscribe[r].query = last.key
          /\ event_chan[pending_subscribe[r].event_tx].rx
          /\ event_chan[pending_subscribe[r].event_tx].buf = <<>>
    /\ \E c \in sinks(last.key) : Len(event_chan[c].buf) = 1

\* ------------------------------------------------------------------ C7
\* What a send of v on result channel c does: v is enqueued when the caller
\* still holds the receiver, and the call returns the outcome of the send.
Replied(c, v) ==
    IF result_chan[c].rx
    THEN /\ result_chan'[c].buf = Append(result_chan[c].buf, v)
         /\ last'.ret = "Ok"
    ELSE /\ result_chan'[c].buf = result_chan[c].buf
         /\ last'.ret = "Err"

\* confirm_add(r) of a present entry takes the entry out, has the entry's
\* event_tx in active[query][subs_id] in the state in which Ok(()) is on
\* result_tx, and sends Ok(()).
Installed(r) ==
    LET p == pending_subscribe[r]
    IN  /\ r \notin DOMAIN pending_subscribe'
        /\ p.query \in DOMAIN subscriptions'
        /\ p.id \in DOMAIN subscriptions'[p.query]
        /\ subscriptions'[p.query][p.id] = p.event_tx
        /\ Replied(p.result_tx, OkUnit)

\* C7 (as claimed): pending_add makes the state of req_id Pending, and
\* confirm_add(req_id), for a request id that was NotFound but for its
\* pending entry, installs the sink, sends Ok(()) and makes the state Active.
C7_SubscribeHandshake ==
    [][\A r \in ReqIds : r = last'.key =>
         /\ last'.op = "pending_add" => subscription_state(r)' = "Pending"
         /\ (/\ last'.op = "confirm_add" /\ last'.hit
             /\ r \notin DOMAIN pending_unsubscribe
             /\ ~is_active(SubscriptionId(r)))
            => Installed(r) /\ subscription_state(r)' = "Active"]_vars

\* C7 (amended): as claimed, but confirm_add(req_id) makes the state of
\* req_id Active when subs_id is SubscriptionId(req_id) and req_id has no
\* pending-unsubscribe entry; with another subs_id the state of req_id is
\* what it is without the pending entry.
C7_SubscribeHandshakeSameId ==
    [][\A r \in ReqIds : r = last'.key =>
         /\ last'.op = "pending_add" => subscription_state(r)' = "Pending"
         /\ (last'.op = "confirm_add" /\ last'.hit) =>
               /\ Installed(r)
               /\ r \notin DOMAIN pending_unsubscribe =>
                     subscription_state(r)' =
                        IF pending_subscribe[r].id = SubscriptionId(r)
                           \/ is_active(SubscriptionId(r))
                        THEN "Active" ELSE "NotFound"]_vars

\* confirm_add has promoted a pending subscription whose id is the request
\* id: the caller got Ok(()) and the state is Active.
C7_Witness ==
    /\ last.op = "confirm_add" /\ last.hit /\ last.ret = "Ok"
    /\ subscription_state(last.key) = "Active"
    /\ \E c \in DOMAIN result_chan : result_chan[c].buf = <<OkUnit>>
    /\ \E c \in DOMAIN event_chan : event_chan[c].fate = "active"

\* ------------------------------------------------------------------ C8
\* C8: cancel_add(req_id, err) of a present entry takes the entry out, sends
\* Err(err) and nothing else on its result_tx, leaves the routing table as it
\* is and drops the entry's event_tx, to which nothing is sent afterwards;
\* the state of a request id that was NotFound before its pending_add is
\* NotFound again.
C8_CancelAdd ==
    /\ [][\A c \in DOMAIN event_chan :
            event_chan[c].fate = "cancelled" => event_chan'[c] = event_chan[c]]_vars
    /\ [][\A r \in ReqIds, e \in Errors :
            (last'.op = "cancel_add" /\ last'.hit /\ r = last'.key /\ e = last'.err) =>
               LET p == pending_subscribe[r]
               IN  /\ r \notin DOMAIN pending_subscribe'
                   /\ Replied(p.result_tx, Err(e))
                   /\ subscriptions' = subscriptions
                   /\ event_chan'[p.event_tx].fate = "cancelled"
                   /\ event_chan'[p.event_tx].buf = <<>>
                   /\ (/\ r \notin DOMAIN pending_unsubscribe
                       /\ ~is_active(SubscriptionId(r)))
                      => subscription_state(r)' = "NotFound"]_vars

\* After a cancelled subscribe the caller holds Err(err), and a later publish
\* for the query of the cancelled subscription, which has an entry in the
\* routing table, left the cancelled channel empty.
C8_Witness ==
    /\ last.op = "publish" /\ last.hit
    /\ \E c \in DOMAIN event_chan :
          /\ event_chan[c].fate = "cancelled"
          /\ event_chan[c].query = last.key
          /\ event_chan[c].rx
          /\ event_chan[c].buf = <<>>
    /\ \E c \in DOMAIN result_chan, e \in Errors : result_chan[c].buf = <<Err(e)>>
    /\ \A r \in ReqIds : subscription_state(r) = "NotFound"

\* ------------------------------------------------------------------ C9
\* C9: confirm_add, cancel_add, confirm_remove and cancel_remove called with
\* a request id that is not in the table they consult return Ok(()) and
\* change neither the routing table, nor the pending tables, nor any channel.
C9_UnknownReqId ==
    [][(/\ last'.op \in {"confirm_add", "cancel_add", "confirm_remove", "cancel_remove"}
        /\ ~last'.hit)
       => /\ last'.ret = "Ok"
          /\ UNCHANGED <<subscriptions, pending_subscribe, pending_unsubscribe,
                         event_chan, result_chan>>]_vars

\* An acknowledgement for an unknown request id arrived while the router
\* held an active sink and a pending entry.
C9_Witness ==
    /\ last.op \in {"confirm_add", "cancel_add", "confirm_remove", "cancel_remove"}
    /\ ~last.hit /\ last.ret = "Ok"
    /\ active_ids # {}
    /\ DOMAIN pending_subscribe \cup DOMAIN pending_unsubscribe # {}

\* ----------------------------------------------------------------- C10
\* confirm_remove(r) of a present entry takes the entry out, has subs_id out
\* of active[query] in the state in which Ok(()) is on result_tx, and sends
\* Ok(()).
Uninstalled(r) ==
    LET p == pending_unsubscribe[r]
    IN  /\ r \notin DOMAIN pending_unsubscribe'
        /\ DOMAIN subscriptions' = DOMAIN subscriptions
        /\ \A q \in DOMAIN subscriptions :
              subscriptions'[q] = IF q = p.query THEN Del(subscriptions[q], p.id)
                                  ELSE subscriptions[q]
        /\ Replied(p.result_tx, OkUnit)

\* The entry of r in pending_unsubscribe names a subscription that is active
\* under the entry's query, and the state of r is Active but for that entry.
CancellingActive(r) ==
    LET p == pending_unsubscribe[r]
    IN  /\ p.query \in listed_under(p.id)
        /\ r \notin DOMAIN pending_subscribe
        /\ is_active(SubscriptionId(r))

\* C10 (as claimed): from Active, pending_remove makes the state of req_id
\* Cancelling, and confirm_remove(req_id) removes subs_id from the routing
\* table and sends Ok(()), after which is_active(subs_id) is false and the
\* state of req_id is NotFound.
C10_UnsubscribeHandshake ==
    [][\A r \in ReqIds : r = last'.key =>
         /\ (last'.op = "pending_remove" /\ subscription_state(r) = "Active")
            => subscription_state(r)' = "Cancelling"
         /\ (last'.op = "confirm_remove" /\ last'.hit /\ CancellingActive(r))
            => /\ Uninstalled(r)
               /\ \A id \in SubsIds :
                     id = pending_unsubscribe[r].id => ~is_active(id)'
               /\ subscription_state(r)' = "NotFound"]_vars

\* C10 (amended): as claimed, but after confirm_remove is_active(subs_id) is
\* false when subs_id is listed under no query other than the entry's, and
\* the state of req_id is NotFound when moreover subs_id is
\* SubscriptionId(req_id).
C10_UnsubscribeHandshakeSameId ==
    [][\A r \in ReqIds : r = last'.key =>
         /\ (last'.op = "pending_remove" /\ subscription_state(r) = "Active")
            => subscription_state(r)' = "Cancelling" /\ subscriptions' = subscriptions
         /\ (last'.op = "confirm_remove" /\ last'.hit)
            => /\ Uninstalled(r)
               /\ \A id \in SubsIds :
                     (/\ id = pending_unsubscribe[r].id
                      /\ listed_under(id) \subseteq {pending_unsubscribe[r].query})
                     => /\ ~is_active(id)'
                        /\ (id = SubscriptionId(r) /\ r \notin DOMAIN pending_subscribe)
                           => subscription_state(r)' = "NotFound"]_vars

\* confirm_remove has removed an active subscription whose id is the request
\* id: the caller got Ok(()), the sink is gone and the state is NotFound.
C10_Witness ==
    /\ last.op = "confirm_remove" /\ last.hit /\ last.ret = "Ok"
    /\ subscription_state(last.key) = "NotFound"
    /\ \E c \in DOMAIN event_chan : event_chan[c].fate = "removed"
    /\ \E c \in DOMAIN result_chan : result_chan[c].buf = <<OkUnit>>

\* ----------------------------------------------------------------- C11
\* The sink confirm_remove(r) takes out of the routing table, if the entry
\* of r names one.
removed_sink(r) ==
    LET p == pending_unsubscribe[r]
    IN  IF p.query \in DOMAIN subscriptions /\ p.id \in DOMAIN subscriptions[p.query]
        THEN {subscriptions[p.query][p.id]}
        ELSE {}

\* A poll of event channel c whose sender is dropped yields the oldest
\* event not yet taken out, and the end of the stream after the last one.
DrainsInOrder(c) ==
    (last'.op = "poll_next" /\ last'.key = ToString(c)) =>
        /\ event_chan'[c].buf = event_chan[c].buf
        /\ IF event_chan[c].nread < Len(event_chan[c].buf)
           THEN /\ last'.ret = "Some"
                /\ event_chan'[c].nread = event_chan[c].nread + 1
                /\ yielded(event_chan'[c]) = event_chan[c].buf[event_chan[c].nread + 1]
           ELSE /\ last'.ret = "None"
                /\ event_chan'[c].nread = event_chan[c].nread

\* C11: confirm_remove drops the sender of the sink it removes and leaves
\* what is enqueued on it; nothing is enqueued on a removed sink afterwards;
\* and the consumer polling it gets the events enqueued before, in order,
\* then the end of the stream.
C11_RemovedSinkReadable ==
    /\ [][\A r \in ReqIds :
            (last'.op = "confirm_remove" /\ last'.hit /\ r = last'.key) =>
                \A c \in removed_sink(r) :
                    /\ event_chan'[c].fate = "removed"
                    /\ event_chan'[c].buf = event_chan[c].buf
                    /\ event_chan'[c].nread = event_chan[c].nread
                    /\ \A q \in DOMAIN subscriptions' :
                          \A id \in DOMAIN subscriptions'[q] : subscriptions'[q][id] # c]_vars
    /\ [][\A c \in DOMAIN event_chan :
            event_chan[c].fate = "removed" =>
                /\ event_chan'[c].fate = "removed"
                /\ event_chan'[c].buf = event_chan[c].buf
                /\ DrainsInOrder(c)]_vars

\* A subscription got the first event and was removed by confirm_remove
\* before the second publish, which left its sink alone; its consumer has
\* then read the first event and the end of the stream.
C11_Witness ==
    /\ npub = 2
    /\ last.op = "poll_next" /\ last.ret = "None"
    /\ \E c \in DOMAIN event_chan :
          /\ last.key = ToString(c)
          /\ event_chan[c].fate = "removed"
          /\ event_chan[c].rx
          /\ event_chan[c].buf = <<OkEvent([query |-> "q1", n |-> 1])>>
          /\ event_chan[c].nread = 1
    /\ \E c \in DOMAIN result_chan : result_chan[c].buf = <<OkUnit>>

\* ----------------------------------------------------------------- C12
\* C12: cancel_remove(req_id, err) of a present entry takes the entry out,
\* sends Err(err) on its result_tx and touches neither the routing table nor
\* an event channel, so that the sinks get the later events as before; the
\* state of a request id that was Active before its pending_remove is Active
\* again.
C12_CancelRemove ==
    [][\A r \in ReqIds, e \in Errors :
         (last'.op = "cancel_remove" /\ last'.hit /\ r = last'.key /\ e = last'.err) =>
            LET p == pending_unsubscribe[r]
            IN  /\ pending_unsubscribe' = Del(pending_unsubscribe, r)
                /\ Replied(p.result_tx, Err(e))
                /\ UNCHANGED <<subscriptions, event_chan, pending_subscribe>>
                /\ (r \notin DOMAIN pending_subscribe /\ is_active(SubscriptionId(r)))
                   => subscription_state(r)' = "Active"]_vars

\* An unsubscribe of the only subscription was cancelled: its caller holds
\* Err(err), and the publish made afterwards reached the sink.
C12_Witness ==
    /\ last.op = "publish" /\ last.hit /\ npub = 1
    /\ Len(event_chan) = 1 /\ Len(result_chan) = 1
    /\ event_chan[1].fate = "active"
    /\ event_chan[1].buf = <<OkEvent([query |-> last.key, n |-> 1])>>
    /\ \E e \in Errors : result_chan[1].buf = <<Err(e)>>
    /\ pending_unsubscribe = EmptyMap
    /\ \E r \in ReqIds : subscription_state(r) = "Active"

\* ----------------------------------------------------------------- C13
\* enum SubscriptionState
SubscriptionState == {"Pending", "Active", "Cancelling", "NotFound"}

\* C13: for every request id subscription_state returns one of the four
\* states: Pending exactly when the id is in pending_subscribe; Cancelling
\* exactly when it is not but is in pending_unsubscribe; Active exactly when
\* it is in neither and SubscriptionId(req_id) is a key of some inner map of
\* the routing table; NotFound exactly when none of these holds.
C13_StatePriority ==
    \A r \in ReqIds :
        LET st == subscription_state(r)
            pending == r \in DOMAIN pending_subscribe
            cancelling == r \in DOMAIN pending_unsubscribe
            active == \E q \in DOMAIN subscriptions :
                         SubscriptionId(r) \in DOMAIN subscriptions[q]
        IN  /\ st \in SubscriptionState
            /\ st = "Pending" <=> pending
            /\ st = "Cancelling" <=> (~pending /\ cancelling)
            /\ st = "Active" <=> (~pending /\ ~cancelling /\ active)
            /\ st = "NotFound" <=> (~pending /\ ~cancelling /\ ~active)

\* A request id with an entry in both pending tables is reported Pending,
\* while the other request id, in neither table, is reported by the routing
\* table alone.
C13_Witness ==
    /\ \E r \in ReqIds :
          /\ r \in DOMAIN pending_subscribe \cap DOMAIN pending_unsubscribe
          /\ subscription_state(r) = "Pending"
    /\ \E r \in ReqIds : subscription_state(r) = "NotFound"

\* ----------------------------------------------------------------- C14
\* The sender of result channel c is dropped and nothing was sent on it.
Abandoned(c) == ~result_tx_held(c) /\ result_chan[c].buf = <<>>

\* What pending_add does to an entry it finds under the request id: the new
\* entry, with the senders just created, takes its place, and the senders
\* of the old entry are dropped without anything being sent.
Overwrites ==
    \A r \in ReqIds, c \in DOMAIN result_chan, e \in DOMAIN event_chan :
        (/\ last'.op = "pending_add" /\ last'.hit /\ r = last'.key
         /\ c = pending_subscribe[r].result_tx
         /\ e = pending_subscribe[r].event_tx)
        => /\ pending_subscribe'[r].result_tx = Len(result_chan')
           /\ pending_subscribe'[r].event_tx = Len(event_chan')
           /\ pending_subscribe'[r].result_tx # c
           /\ result_chan'[c] = result_chan[c]
           /\ Abandoned(c)'
           /\ event_chan'[e].fate = "replaced"
           /\ event_chan'[e].buf = event_chan[e].buf

\* Nothing is sent on a result channel whose sender is dropped.
NoReplyAfterDrop ==
    \A c \in DOMAIN result_chan :
        ~result_tx_held(c) => result_chan'[c].buf = result_chan[c].buf

\* C14 (as claimed): pending_add overwrites an entry under the same request
\* id, and the caller of the overwritten entry, awaiting its reply, neither
\* receives a value nor sees the channel closed.
C14_OverwrittenBlocks ==
    [][/\ Overwrites
       /\ NoReplyAfterDrop
       /\ \A c \in DOMAIN result_chan :
             (last'.op = "recv" /\ last'.key = ToString(c) /\ Abandoned(c))
             => last'.ret = "Pending"]_vars

\* C14 (amended): pending_add overwrites an entry under the same request id
\* and drops the senders of the overwritten entry; its caller never receives
\* a value, and sees its result channel closed.
C14_OverwrittenSeesClosed ==
    [][/\ Overwrites
       /\ NoReplyAfterDrop
       /\ \A c \in DOMAIN result_chan :
             (last'.op = "recv" /\ last'.key = ToString(c) /\ Abandoned(c))
             => last'.ret = "None"]_vars

\* The caller of an overwritten subscribe request has found its result
\* channel closed, while the request that replaced it is still pending.
C14_Witness ==
    /\ last.op = "recv" /\ last.key = ToString(1) /\ last.ret = "None"
    /\ Abandoned(1)
    /\ \E r \in DOMAIN pending_subscribe : pending_subscribe[r].result_tx = 2
    /\ subscriptions = EmptyMap

\* ----------------------------------------------------------------- C15
\* The messages ever sent on the control channel that carry the result
\* channel of handle h.
messages_of(h) ==
    {i \in DOMAIN terminate_chan.buf :
        terminate_chan.buf[i].result_tx = handles[h].result_rx}

\* The terminate call of handle h got its message into the control channel.
Dispatched(h) ==
    \/ handles[h].pc = "sent"
    \/ handles[h].pc = "returned" /\ handles[h].ret # SendFailed

\* Each terminate call that got its message through has exactly one message
\* in the control channel, with the id and the query of its handle; no
\* other message is in the channel.
OneMessageEach ==
    /\ \A h \in DOMAIN handles :
          /\ Dispatched(h) =>
                /\ Cardinality(messages_of(h)) = 1
                /\ \A i \in messages_of(h) :
                      terminate_chan.buf[i] =
                         TerminateSubscription(handles[h].id, handles[h].query,
                                               handles[h].result_rx)
          /\ ~Dispatched(h) => messages_of(h) = {}
    /\ Len(terminate_chan.buf) =
          Cardinality({h \in DOMAIN handles : Dispatched(h)})

\* A terminate call awaiting its reply returns only when a value is on its
\* result channel or every sender of the channel is dropped, and returns the
\* value when there is one.
ReturnsTheReply ==
    \A h \in DOMAIN handles, c \in DOMAIN result_chan :
        (/\ handles[h].pc = "sent" /\ handles'[h].pc = "returned"
         /\ c = handles[h].result_rx)
        => /\ result_chan[c].buf # <<>> \/ ~reply_tx_held(c)
           /\ result_chan[c].buf # <<>> => handles'[h].ret = result_chan[c].buf[1]

\* C15: terminate sends one TerminateSubscription with the id and the query
\* of its handle, does not return before the driver has sent a value on the
\* message's result_tx or dropped it, and returns the value the driver sent.
C15_TerminateRoundTrip ==
    /\ []OneMessageEach
    /\ [][ReturnsTheReply]_vars

\* Two terminate calls have returned what the driver replied: Ok(()) to one
\* and an error to the other.
C15_Witness ==
    /\ Len(handles) = 2
    /\ handles[1].pc = "returned" /\ handles[1].ret = OkUnit
    /\ handles[2].pc = "returned" /\ handles[2].ret \in {Err(e) : e \in Errors}
    /\ Len(terminate_chan.buf) = 2
    /\ terminate_chan.buf[1].id = handles[1].id
    /\ terminate_chan.buf[2].query = handles[2].query

\* ----------------------------------------------------------------- C16
\* C16: a terminate call that finds the receiver of the control channel
\* gone returns the error of the send at once, with nothing sent; a call
\* whose message was sent and whose result channel is closed without a value
\* does not wait, and returns the internal error.
C16_TerminateFailures ==
    /\ [](\A h \in DOMAIN handles :
            (/\ handles[h].pc = "sent"
             /\ result_chan[handles[h].result_rx].buf = <<>>
             /\ ~reply_tx_held(handles[h].result_rx))
            => /\ recv_outcome(result_chan[handles[h].result_rx],
                               reply_tx_held(handles[h].result_rx)) = "None"
               /\ ENABLED terminate_recv(h))
    /\ [][\A h \in DOMAIN handles :
            /\ (/\ handles[h].pc = "held" /\ handles'[h].pc # "held"
                /\ ~terminate_chan.rx)
               => /\ handles'[h].pc = "returned"
                  /\ handles'[h].ret = SendFailed
                  /\ terminate_chan' = terminate_chan
            /\ (/\ handles[h].pc = "sent" /\ handles'[h].pc = "returned"
                /\ result_chan[handles[h].result_rx].buf = <<>>)
               => handles'[h].ret = NoReply]_vars

\* One terminate call was left without reply by the driver and returned the
\* internal error; another found the control channel closed and returned the
\* error of the send.
C16_Witness ==
    /\ Len(handles) = 2
    /\ handles[1].pc = "returned" /\ handles[1].ret = NoReply
    /\ handles[2].pc = "returned" /\ handles[2].ret = SendFailed
    /\ Len(terminate_chan.buf) = 1
    /\ ~terminate_chan.rx

\* ----------------------------------------------------------------- C17
\* C17: cancel_add of a present entry drops the entry's event sender, on
\* which nothing was sent; nothing is sent on the channel afterwards, and
\* every poll of its receiver yields the end of the stream.
C17_CancelledStreamEnds ==
    /\ [][\A r \in ReqIds, c \in DOMAIN event_chan :
            (/\ last'.op = "cancel_add" /\ last'.hit /\ r = last'.key
             /\ c = pending_subscribe[r].event_tx)
            => /\ event_chan[c].buf = <<>>
               /\ event_chan'[c].fate = "cancelled"
               /\ event_chan'[c].buf = <<>>]_vars
    /\ [][\A c \in DOMAIN event_chan :
            event_chan[c].fate = "cancelled" =>
                /\ event_chan'[c].fate = "cancelled"
                /\ event_chan'[c].buf = <<>>
                /\ event_chan'[c].nread = 0
                /\ (last'.op = "poll_next" /\ last'.key = ToString(c))
                   => last'.ret = "None"]_vars

\* The holder of the event receiver of a cancelled subscribe request polls
\* it and finds the end of the stream, while an active sink of the query has
\* got an event.
C17_Witness ==
    /\ last.op = "poll_next" /\ last.ret = "None"
    /\ \E c \in DOMAIN event_chan :
          /\ last.key = ToString(c)
          /\ event_chan[c].fate = "cancelled"
          /\ event_chan[c].rx
          /\ event_chan[c].buf = <<>>
    /\ \E c \in sinks("q1") : Len(event_chan[c].buf) >= 1
    /\ \E c \in DOMAIN result_chan, e \in Errors : result_chan[c].buf = <<Err(e)>>

\* ----------------------------------------------------------------- C18
\* C18 (as claimed): confirm_remove(r) of a present entry whose subscription
\* is not in the routing table leaves the routing table unchanged, sends
\* Ok(()) on the entry's result_tx and returns success.
C18_ConfirmRemoveAbsentSucceeds ==
    [][\A r \in ReqIds :
         (/\ last'.op = "confirm_remove" /\ last'.hit /\ r = last'.key
          /\ removed_sink(r) = {})
         => /\ subscriptions' = subscriptions
            /\ r \notin DOMAIN pending_unsubscribe'
            /\ result_chan[pending_unsubscribe[r].result_tx].rx
               => result_chan'[pending_unsubscribe[r].result_tx].buf =
                    Append(result_chan[pending_unsubscribe[r].result_tx].buf, OkUnit)
            /\ last'.ret = "Ok"]_vars

\* C18 (amended): confirm_remove(r) of a present entry whose subscription is
\* not in the routing table leaves the routing table and every event sender
\* unchanged, takes the entry out and sends Ok(()) on the entry's result_tx;
\* it returns the outcome of that send, which is success when the caller
\* still holds result_rx and an error when the caller has dropped it.
C18_ConfirmRemoveAbsentReplies ==
    [][\A r \in ReqIds :
         (/\ last'.op = "confirm_remove" /\ last'.hit /\ r = last'.key
          /\ removed_sink(r) = {})
         => /\ subscriptions' = subscriptions
            /\ event_chan' = event_chan
            /\ r \notin DOMAIN pending_unsubscribe'
            /\ Replied(pending_unsubscribe[r].result_tx, OkUnit)]_vars

\* publish has evicted the only sink there ever was, and the confirm_remove
\* that follows finds no subscription and replies Ok(()) to a waiting caller.
C18_Witness ==
    /\ last.op = "confirm_remove" /\ last.hit /\ last.ret = "Ok"
    /\ Len(event_chan) = 1
    /\ event_chan[1].fate = "evicted"
    /\ \A q \in DOMAIN subscriptions : DOMAIN subscriptions[q] = {}
    /\ Len(result_chan) = 1
    /\ result_chan[1].rx
    /\ result_chan[1].buf = <<OkUnit>>

\* ----------------------------------------------------------------- C19
\* C19: a SubscriptionId converted to a JSON-RPC id becomes the string-typed
\* id holding its text, and that id converted back gives Ok of the same
\* SubscriptionId; the absent id converts to an error; an integer id converts
\* to Ok of the SubscriptionId whose text is the integer in decimal.
C19_IdRoundTrip ==
    /\ (conv.stage \in {"rpc", "done"} /\ conv.given = "subs")
       => /\ conv.rpc.kind = "Str"
          /\ conv.rpc.str = as_ref(conv.id)
    /\ (conv.stage = "done" /\ conv.given = "subs")
       => /\ conv.result.ok
          /\ conv.result.id = conv.id
    /\ (conv.stage = "done" /\ conv.rpc.kind = "None") => ~conv.result.ok
    /\ (conv.stage = "done" /\ conv.rpc.kind = "Num")
       => /\ conv.result.ok
          /\ as_ref(conv.result.id) = ToString(conv.rpc.num)

\* The SubscriptionId that the integer id -12 converts to has made the round
\* trip through the string-typed id "-12".
C19_Witness ==
    /\ conv.stage = "done" /\ conv.given = "subs"
    /\ conv.id = SubscriptionId("-12")
    /\ conv.rpc = IdStr("-12")
    /\ conv.result = OkId(SubscriptionId("-12"))

C21_NoRollback ==
    [][\A r \in ReqIds : (last'.hit /\ r = last'.key) =>
         /\ (/\ last'.op \in {"confirm_add", "cancel_add"}
             /\ ~result_chan[pending_subscribe[r].result_tx].rx)
            => /\ last'.ret = "Err"
               /\ result_chan' = result_chan
               /\ r \notin DOMAIN pending_subscribe'
               /\ pending_unsubscribe' = pending_unsubscribe
               /\ IF last'.op = "confirm_add"
                  THEN /\ pending_subscribe[r].query \in DOMAIN subscriptions'
                       /\ pending_subscribe[r].id
                             \in DOMAIN subscriptions'[pending_subscribe[r].query]
                       /\ subscriptions'[pending_subscribe[r].query][pending_subscribe[r].id]
                             = pending_subscribe[r].event_tx
                       /\ event_chan'[pending_subscribe[r].event_tx].fate = "active"
                  ELSE subscriptions' = subscriptions
         /\ (/\ last'.op \in {"confirm_remove", "cancel_remove"}
             /\ ~result_chan[pending_unsubscribe[r].result_tx].rx)
            => /\ last'.ret = "Err"
               /\ result_chan' = result_chan
               /\ r \notin DOMAIN pending_unsubscribe'
               /\ pending_subscribe' = pending_subscribe
               /\ IF last'.op = "confirm_remove"
                  THEN /\ DOMAIN subscriptions' = DOMAIN subscriptions
                       /\ \A q \in DOMAIN subscriptions :
                             subscriptions'[q] =
                                IF q = pending_unsubscribe[r].query
                                THEN Del(subscriptions[q], pending_unsubscribe[r].id)
                                ELSE subscriptions[q]
                  ELSE subscriptions' = subscriptions]_vars

\* confirm_add has returned an error because the caller had dropped the
\* result receiver, and the subscription is installed all the same: it is
\* the only one, no entry is pending, and nothing was sent to the caller.
C21_Witness ==
    /\ last.op = "confirm_add" /\ last.hit /\ last.ret = "Err"
    /\ pending_subscribe = EmptyMap
    /\ Len(result_chan) = 1 /\ ~result_chan[1].rx /\ result_chan[1].buf = <<>>
    /\ Len(event_chan) = 1 /\ event_chan[1].fate = "active"
    /\ \E q \in DOMAIN subscriptions : \E id \in DOMAIN subscriptions[q] :
          subscriptions[q][id] = 1

\* ----------------------------------------------------------------- C22
\* The acknowledgements of the driver.
Acknowledgements == {"confirm_add", "cancel_add", "confirm_remove", "cancel_remove"}

\* C22: the result channel registered by a pending_add or pending_remove
\* call never carries more than one value; once it carries one the router
\* no longer holds its sender, the entry having been taken out before the
\* send; only an acknowledgement that finds its entry sends, and it sends
\* on that entry's channel alone; one that finds none sends nothing.
C22_AtMostOneReply ==
    /\ [](\A c \in DOMAIN result_chan :
            /\ Len(result_chan[c].buf) <= 1
            /\ Len(result_chan[c].buf) = 1 => ~result_tx_held(c))
    /\ [][\A c \in DOMAIN result_chan :
            result_chan'[c].buf # result_chan[c].buf
            => /\ last'.op \in Acknowledgements /\ last'.hit
               /\ result_tx_held(c)
               /\ ~result_tx_held(c)'
               /\ \A r \in ReqIds : r = last'.key =>
                     c = IF last'.op \in {"confirm_add", "cancel_add"}
                         THEN pending_subscribe[r].result_tx
                         ELSE pending_unsubscribe[r].result_tx]_vars
    /\ [][(last'.op \in Acknowledgements /\ ~last'.hit)
            => result_chan' = result_chan]_vars

\* A subscribe request was confirmed and an unsubscribe request cancelled,
\* each caller got its one reply, and a further acknowledgement has found
\* no entry.
C22_Witness ==
    /\ last.op \in Acknowledgements /\ ~last.hit
    /\ pending_subscribe = EmptyMap /\ pending_unsubscribe = EmptyMap
    /\ Len(result_chan) = 2
    /\ result_chan[1].buf = <<OkUnit>>
    /\ \E e \in Errors : result_chan[2].buf = <<Err(e)>>

\* ----------------------------------------------------------------- C23
\* The sink of the subscription that the pending-unsubscribe entry of r
\* names, if it is in the routing table.
cancelling_sink(r) ==
    LET p == pending_unsubscribe[r]
    IN  IF p.query \in DOMAIN subscriptions /\ p.id \in DOMAIN subscriptions[p.query]
        THEN {subscriptions[p.query][p.id]}
        ELSE {}

\* C23: pending_remove changes neither the routing table nor any event
\* channel; and while the state of r is Cancelling, a publish for the query
\* of r's entry enqueues the event on the sink of the entry's subscription,
\* when that sink takes sends, leaves the sink in the routing table and
\* leaves the state of r Cancelling.
C23_DeliveryWhileCancelling ==
    /\ [][last'.op = "pending_remove"
            => subscriptions' = subscriptions /\ event_chan' = event_chan]_vars
    /\ [][\A r \in ReqIds, c \in DOMAIN event_chan :
            (/\ last'.op = "publish"
             /\ subscription_state(r) = "Cancelling"
             /\ last'.key = pending_unsubscribe[r].query
             /\ c \in cancelling_sink(r)
             /\ event_chan[c].rx /\ ~full(event_chan[c]))
            => /\ event_chan'[c].buf = Append(event_chan[c].buf, OkEvent(published))
               /\ event_chan'[c].fate = "active"
               /\ c \in cancelling_sink(r)'
               /\ subscription_state(r)' = "Cancelling"]_vars

\* Two events were published for the query of a subscription whose
\* unsubscribe request is pending, the second of them just now, and the
\* subscription's sink holds both.
C23_Witness ==
    /\ last.op = "publish" /\ npub = 2
    /\ \E r \in ReqIds :
          /\ subscription_state(r) = "Cancelling"
          /\ pending_unsubscribe[r].query = last.key
          /\ \E c \in cancelling_sink(r) :
                /\ event_chan[c].rx
                /\ event_chan[c].buf = <<OkEvent([query |-> last.key, n |-> 1]),
                                         OkEvent([query |-> last.key, n |-> 2])>>

====
